---- MODULE Spec2Model ----
(***************************************************************************)
(* A model of the two scripts of the repository:                           *)
(*   fetch_video_assets.py  the manifest resolver/downloader               *)
(*   upload_to_s3.py        the directory-to-bucket uploader               *)
(* Text is modelled as sequences of one-character strings, and the regular *)
(* expressions of the code are modelled by what Python's re does on them.  *)
(***************************************************************************)
EXTENDS Integers, Sequences, FiniteSets, TLC

\* ------------------------------------------------------------------ text

\* The one element of a singleton set.  Written  The({e(x) : x \in {v}})  it
\* is  LET x == v IN e(x)  with v computed once, however often e uses x.
The(S) == CHOOSE x \in S : TRUE

NL == "\n"
QUOTES == {"'", "\""}
SPACES == {" ", "\t", NL}

\* The first index j >= i with j past the end or s[j] outside S: the end of
\* the greedy run [S]* that starts at i.
RECURSIVE SpanInStep(_, _, _)
SpanInStep(s, i, S) ==
  IF i <= Len(s) /\ s[i] \in S THEN SpanInStep(s, i + 1, S) ELSE i
SpanIn(s, i, S) == The({SpanInStep(t, j, S) : t \in {s}, j \in {i}})

\* The same for the run [^S]*.
RECURSIVE SpanNotInStep(_, _, _)
SpanNotInStep(s, i, S) ==
  IF i <= Len(s) /\ s[i] \notin S THEN SpanNotInStep(s, i + 1, S) ELSE i
SpanNotIn(s, i, S) == The({SpanNotInStep(t, j, S) : t \in {s}, j \in {i}})

StartsAt(s, i, p) ==
  /\ i >= 1
  /\ i + Len(p) - 1 <= Len(s)
  /\ \A k \in 1..Len(p) : s[i + k - 1] = p[k]

EndsWith(s, p) == Len(p) <= Len(s) /\ StartsAt(s, Len(s) - Len(p) + 1, p)

\* The first index >= i at which p occurs in s, or Len(s) + 1.
RECURSIVE FindStep(_, _, _)
FindStep(s, p, i) ==
  IF i > Len(s) THEN Len(s) + 1
  ELSE IF StartsAt(s, i, p) THEN i
  ELSE FindStep(s, p, i + 1)
Find(s, p, i) == The({FindStep(t, p, j) : t \in {s}, j \in {i}})

\* The last index <= i at which s holds c, or 0.
RECURSIVE FindLastStep(_, _, _)
FindLastStep(s, c, i) ==
  IF i < 1 THEN 0 ELSE IF s[i] = c THEN i ELSE FindLastStep(s, c, i - 1)
FindLast(s, c, i) == The({FindLastStep(t, c, j) : t \in {s}, j \in {i}})

\* The last index <= i at which s holds a character outside S, or 0.
RECURSIVE LastNotInStep(_, _, _)
LastNotInStep(s, i, S) ==
  IF i < 1 THEN 0 ELSE IF s[i] \notin S THEN i ELSE LastNotInStep(s, i - 1, S)
LastNotIn(s, i, S) == The({LastNotInStep(t, j, S) : t \in {s}, j \in {i}})

From(s, i) == SubSeq(s, i, Len(s))
Upto(s, i) == SubSeq(s, 1, i)

\* str.strip()
Strip(s) == SubSeq(s, SpanIn(s, 1, SPACES), LastNotIn(s, Len(s), SPACES))

\* str.split(sep)[0]
BeforeFirst(s, sep) == Upto(s, Find(s, sep, 1) - 1)

RECURSIVE Concat(_)
Concat(ss) == IF ss = <<>> THEN <<>> ELSE Head(ss) \o Concat(Tail(ss))

RECURSIVE Join(_, _)
Join(ss, sep) ==
  IF ss = <<>> THEN <<>>
  ELSE IF Len(ss) = 1 THEN ss[1]
  ELSE ss[1] \o sep \o Join(Tail(ss), sep)

\* content.split("\n"): the lines of a text.
RECURSIVE Lines(_)
Lines(s) ==
  The({IF n > Len(t) THEN <<t>> ELSE <<Upto(t, n - 1)>> \o Lines(From(t, n + 1)) :
         <<t, n>> \in {<<s, Find(s, <<NL>>, 1)>>}})

\* ---------------------------------------------------- literals of the code

CURL == <<"c", "u", "r", "l">>
DASH_H == <<"-", "H">>
HTTP == <<"h", "t", "t", "p">>
COLON_SLASHES == <<":", "/", "/">>
COLON_SPACE == <<":", " ">>
M3U8 == <<".", "m", "3", "u", "8">>
TS == <<".", "t", "s">>
INDEX_M3U8 == <<"i", "n", "d", "e", "x">> \o M3U8
HASH == "#"
QMARK == "?"
SLASH == "/"

\* ----------------------------------------------------------- extract_headers

\* One match of  -H\s*['"]?([^'"]+)['"]?  whose "-H" sits at i: the captured
\* group and the index after the match; found = FALSE when it does not match.
\* \s* is greedy, then the optional quote, then at least one non-quote; when
\* the run of spaces is followed by two quotes or by the end, the regex gives
\* one space back and captures it.
HeaderMatchAt(s, i) ==
  LET p == i + 2
      q == SpanIn(s, p, SPACES)
      from == IF q <= Len(s) /\ s[q] \in QUOTES /\ q + 1 <= Len(s) /\ s[q + 1] \notin QUOTES
              THEN q + 1
              ELSE IF q <= Len(s) /\ s[q] \notin QUOTES THEN q
              ELSE IF q > p THEN q - 1
              ELSE 0
      e == IF from = 0 THEN 0 ELSE SpanNotIn(s, from, QUOTES)
  IN IF ~StartsAt(s, i, DASH_H) \/ from = 0
     THEN [found |-> FALSE, group |-> <<>>, next |-> i + 1]
     ELSE [found |-> TRUE, group |-> SubSeq(s, from, e - 1),
           next |-> IF e <= Len(s) THEN e + 1 ELSE e]

\* re.findall(header_pattern, curl_command), scanning from index i.
RECURSIVE FindHeaders(_, _)
FindHeaders(s, i) ==
  IF i > Len(s) THEN <<>>
  ELSE The({IF m.found THEN <<m.group>> \o FindHeaders(s, m.next)
            ELSE FindHeaders(s, i + 1) : m \in {HeaderMatchAt(s, i)}})

HasSep(h) == Find(h, COLON_SPACE, 1) <= Len(h)
HeaderName(h) == Upto(h, Find(h, COLON_SPACE, 1) - 1)
HeaderValue(h) == From(h, Find(h, COLON_SPACE, 1) + 2)

\* The dict comprehension: a later declaration of a name replaces an earlier one.
HeaderDict(hs) ==
  [n \in {HeaderName(hs[k]) : k \in 1..Len(hs)} |->
     LET last == CHOOSE k \in 1..Len(hs) :
                   /\ HeaderName(hs[k]) = n
                   /\ \A j \in (k + 1)..Len(hs) : HeaderName(hs[j]) # n
     IN HeaderValue(hs[last])]

\* extract_headers: the mapping, or IndexError when a declaration has no ": ".
extract_headers(curl_command) ==
  The({IF \E k \in 1..Len(hs) : ~HasSep(hs[k])
       THEN [ok |-> FALSE, error |-> "IndexError", value |-> <<>>]
       ELSE [ok |-> TRUE, error |-> "", value |-> HeaderDict(hs)] :
         hs \in {FindHeaders(curl_command, 1)}})

\* --------------------------------------------------------------- extract_url

\* One match of  curl\s+['"]?(https?://[^\s'"]+)['"]?  starting at i.
UrlMatchAt(s, i) ==
  LET p == i + 4
      q == SpanIn(s, p, SPACES)
      u == IF q <= Len(s) /\ s[q] \in QUOTES THEN q + 1 ELSE q
      t == IF StartsAt(s, u, HTTP \o <<"s">> \o COLON_SLASHES) THEN u + 8
           ELSE IF StartsAt(s, u, HTTP \o COLON_SLASHES) THEN u + 7
           ELSE 0
      e == IF t = 0 THEN 0 ELSE SpanNotIn(s, t, SPACES \cup QUOTES)
  IN IF StartsAt(s, i, CURL) /\ q > p /\ t # 0 /\ e > t
     THEN [found |-> TRUE, group |-> SubSeq(s, u, e - 1)]
     ELSE [found |-> FALSE, group |-> <<>>]

\* re.search(url_pattern, curl_command): the leftmost match.
RECURSIVE UrlSearchFrom(_, _)
UrlSearchFrom(s, i) ==
  IF i > Len(s) THEN [found |-> FALSE, group |-> <<>>]
  ELSE IF UrlMatchAt(s, i).found THEN UrlMatchAt(s, i)
  ELSE UrlSearchFrom(s, i + 1)

UrlSearch(s) == UrlSearchFrom(s, 1)

\* extract_url without the check of the suffix.
extract_url_any_suffix(curl_command) ==
  The({IF m.found
       THEN [ok |-> TRUE, error |-> "", value |-> m.group]
       ELSE [ok |-> FALSE, error |-> "ValueError: no URL", value |-> <<>>] :
         m \in {UrlSearch(curl_command)}})

\* extract_url: the URL as written, or ValueError.
extract_url(curl_command) ==
  The({IF m.found
       THEN IF ~EndsWith(BeforeFirst(m.group, <<QMARK>>), M3U8)
            THEN [ok |-> FALSE, error |-> "ValueError: not .m3u8", value |-> <<>>]
            ELSE [ok |-> TRUE, error |-> "", value |-> m.group]
       ELSE [ok |-> FALSE, error |-> "ValueError: no URL", value |-> <<>>] :
         m \in {UrlSearch(curl_command)}})

\* ------------------------------------------------------------------ urljoin

\* urllib.parse.urljoin for http(s) bases and references without dot
\* segments or parameters.
Origin(url) ==
  Upto(url, SpanNotIn(url, Find(url, COLON_SLASHES, 1) + 3, {SLASH, QMARK, HASH}) - 1)
NoFragment(url) == BeforeFirst(url, <<HASH>>)
NoQuery(url) == BeforeFirst(NoFragment(url), <<QMARK>>)
UrlPath(url) == From(NoQuery(url), Len(Origin(url)) + 1)
DirOf(path) ==
  IF FindLast(path, SLASH, Len(path)) > 0
  THEN Upto(path, FindLast(path, SLASH, Len(path)))
  ELSE <<SLASH>>

urljoin(base, url) ==
  IF url = <<>> THEN base
  ELSE IF StartsAt(url, 1, HTTP \o COLON_SLASHES)
          \/ StartsAt(url, 1, HTTP \o <<"s">> \o COLON_SLASHES) THEN url
  ELSE IF url[1] = SLASH THEN Origin(base) \o url
  ELSE IF url[1] = HASH THEN NoFragment(base) \o url
  ELSE IF url[1] = QMARK THEN NoQuery(base) \o url
  ELSE Origin(base) \o DirOf(UrlPath(base)) \o url

\* ---------------------------------------------------------- find_references

\* One line against  ^(?!#)(.*\<ext>(?:\?.*)?)$ : the line does not start
\* with "#", and the extension occurs in it followed by the end of the line
\* or by "?".
LineMatches(line, file_extension) ==
  /\ ~StartsAt(line, 1, <<HASH>>)
  /\ \E i \in 1..Len(line) :
       /\ StartsAt(line, i, file_extension)
       /\ LET after == i + Len(file_extension)
          IN after = Len(line) + 1 \/ line[after] = QMARK

\* re.findall(pattern, content, re.MULTILINE): the matching lines, in order.
MatchedLines(content, file_extension) ==
  SelectSeq(Lines(content), LAMBDA l : LineMatches(l, file_extension))

find_references(content, base_url, file_extension) ==
  The({[k \in 1..Len(matches) |-> urljoin(base_url, Strip(matches[k]))] :
         matches \in {MatchedLines(content, file_extension)}})

\* ---------------------------------------------------- get_filename_from_url

get_filename_from_url(url) ==
  LET path == UrlPath(url)
      filename == From(path, Len(DirOf(path)) + 1)
  IN IF Len(path) > 0 /\ filename # <<>> THEN filename ELSE INDEX_M3U8

\* ------------------------------------------------------------------ bounds

MaxHeaders == 2   \* header declarations in a request description
MaxLines == 2     \* lines in a manifest body
MaxQueue == 3     \* pending manifests a run may hold
MaxSeg == 3       \* pending segments a run may hold
MaxLog == 6       \* outbound GETs the log records
MaxFaults == 1    \* GETs and saves that fail in one run
MaxFiles == 2     \* files in one directory of the uploaded tree

\* ------------------------------------------------------------------ inputs

Str_A == <<"A">>
Str_B == <<"B">>
Str_1 == <<"1">>
Str_2 == <<"2">>
Q == <<"'">>
SP == <<" ">>
HostH == HTTP \o COLON_SLASHES \o <<"h", "/">>
UA == HostH \o <<"a">> \o M3U8
UB == HostH \o <<"b">> \o M3U8

\* A header declaration as typed: name, separator, value.
Decls ==
  { [name |-> Str_A, sep |-> COLON_SPACE, value |-> Str_1],
    [name |-> Str_A, sep |-> COLON_SPACE, value |-> Str_2],
    [name |-> Str_B, sep |-> COLON_SPACE, value |-> Str_1],
    [name |-> Str_A, sep |-> <<":">>, value |-> Str_1] }

\* The URL of a request description; <<>> stands for none.
ReqUrls ==
  { <<>>,
    UA,
    UA \o <<QMARK, "t">>,
    HostH \o <<"a">> \o TS,
    HostH \o <<"a">> \o TS \o <<QMARK, "x", "=">> \o M3U8 }

SeqsUpTo(S, n) == UNION { [1..k -> S] : k \in 0..n }

Requests ==
  [ url : ReqUrls, decls : SeqsUpTo(Decls, MaxHeaders), layout : {"url_first", "headers_first"} ]

RenderDecl(d) == SP \o DASH_H \o SP \o Q \o d.name \o d.sep \o d.value \o Q
RenderDecls(ds) == Concat([k \in 1..Len(ds) |-> RenderDecl(ds[k])])
RenderUrl(u) == IF u = <<>> THEN <<>> ELSE SP \o Q \o u \o Q

\* The text typed at the prompt for a request.
Render(r) ==
  IF r.layout = "url_first"
  THEN CURL \o RenderUrl(r.url) \o RenderDecls(r.decls)
  ELSE CURL \o RenderDecls(r.decls) \o RenderUrl(r.url)

DefaultRequest ==
  [ url |-> UA,
    decls |-> << [name |-> Str_A, sep |-> COLON_SPACE, value |-> Str_1] >>,
    layout |-> "url_first" ]

\* The lines a manifest body is made of.
Line_b == <<"b">> \o M3U8
Line_a == <<"a">> \o M3U8
Line_s == <<"s">> \o TS
Line_g == HTTP \o COLON_SLASHES \o <<"g", SLASH, "t">> \o TS \o <<QMARK, "k">>
Line_mq == <<"b">> \o M3U8 \o <<QMARK, "x", "=", "c">> \o TS
Line_c == <<HASH, "c">> \o TS
Line_wc == <<" ", HASH, "c">> \o TS

BodyLines == { Line_b, Line_s, Line_g, Line_mq, Line_c, Line_wc }

Body(ls) == Join(ls, <<NL>>)
Bodies == { Body(ls) : ls \in SeqsUpTo(BodyLines, MaxLines) }
NestingBodies == { Body(<<Line_b>>), Body(<<Line_b, Line_s>>), Body(<<Line_b, Line_b>>) }
NestedBodies ==
  { Body(<<>>), Body(<<Line_s>>), Body(<<Line_a>>), Body(<<Line_b>>), Body(<<Line_b, Line_s>>) }

\* What the server holds: a body for each manifest it serves.
DefaultSite == (UA :> Body(<<Line_b, Line_s>>)) @@ (UB :> Body(<<Line_s>>))
Sites ==
  { (UA :> ba) @@ (UB :> Body(<<Line_s>>)) : ba \in Bodies }
    \cup { (UA :> ba) @@ (UB :> bb) : ba \in NestingBodies, bb \in NestedBodies }
    \cup { (UA :> ba) : ba \in NestingBodies }

\* The resource a GET of url asks the server for: the URL without its
\* fragment and query string.
Resource(url) == NoQuery(url)

\* What upload_directory_to_s3 is called with. NONE is Python's None; a path
\* is the sequence of its components.
NONE == "<None>"
SourceDirs == {NONE, "", "d"}
BucketNames == {NONE, "", "bkt"}
KeyIds == {NONE, "", "AK"}
SecretKeys == {NONE, "", "SK"}
EnvKeyIds == {NONE, "EK"}
EnvSecretKeys == {NONE, "ES"}
FileNames == {"a.txt", "b.txt"}

\* The directories os.walk yields, top down, each with its files: the source
\* root and one subdirectory, with up to MaxFiles files each and no name twice.
FileLists ==
  { fs \in SeqsUpTo(FileNames, MaxFiles) : \A i, j \in 1..Len(fs) : i # j => fs[i] # fs[j] }
Trees ==
  {<<>>} \cup { << [dir |-> <<>>, files |-> top], [dir |-> <<"sub">>, files |-> sub] >> :
                  top \in FileLists, sub \in FileLists }

\* ------------------------------------------------------------------- state

VARIABLES
  request,                 \* the request description, as structured input
  site,                    \* the bodies the server holds
  curl_command,            \* the text read at the prompt
  pc,                      \* where fetch_and_save_m3u8_and_ts is
  error,                   \* the exception that ended the run, if any
  headers,                 \* the extracted header mapping
  initial_url,             \* the extracted URL
  m3u8_files,              \* the entries of m3u8_files not yet iterated
  ts_files,                \* the pending-segments list
  ts_done,                 \* how many entries of ts_files the second loop has taken
  content,                 \* the body fetched by the last iteration
  referenced_m3u8_files,   \* what the last iteration found
  referenced_ts_files,
  gets,                    \* the outbound GETs so far (the first MaxLog of them)
  faults,                  \* how many fetches, saves and downloads have failed
  files                    \* the names of the local files created

VARIABLES
  args,                    \* the arguments of upload_directory_to_s3
  env,                     \* the credentials the environment holds
  tree,                    \* what os.walk(source_directory) yields
  up_pc,                   \* where upload_directory_to_s3 is
  aws_access_key_id,       \* the credentials after the environment fallback
  aws_secret_access_key,
  reported,                \* the error the function printed before returning
  up_done,                 \* how many files of the walk have been taken
  uploads                  \* the upload_file calls so far

uvars ==
  << args, env, tree, up_pc, aws_access_key_id, aws_secret_access_key, reported, up_done,
     uploads >>

dvars ==
  << request, site, curl_command, pc, error, headers, initial_url, m3u8_files, ts_files,
     ts_done, content, referenced_m3u8_files, referenced_ts_files, gets, faults, files >>

vars == <<dvars, uvars>>

Record(log, kind, url, hdrs, outcome, wrote) ==
  IF Len(log) < MaxLog
  THEN Append(log, [kind |-> kind, url |-> url, headers |-> hdrs,
                    outcome |-> outcome, wrote |-> wrote])
  ELSE log

DownloadInit ==
  /\ request \in Requests
  /\ site \in Sites
  /\ request = DefaultRequest \/ site = DefaultSite
  /\ curl_command = Render(request)
  /\ pc = "start"
  /\ error = ""
  /\ headers = <<>>
  /\ initial_url = <<>>
  /\ m3u8_files = <<>>
  /\ ts_files = <<>>
  /\ ts_done = 0
  /\ content = <<>>
  /\ referenced_m3u8_files = <<>>
  /\ referenced_ts_files = <<>>
  /\ gets = <<>>
  /\ faults = 0
  /\ files = {}

\* What a run never assigns after it has started.
inputs == <<request, site, curl_command>>

\* Lines 141-145: extraction; an exception of either extractor ends the run.
Extract ==
  /\ pc = "start"
  /\ \E h \in {extract_headers(curl_command)}, u \in {extract_url(curl_command)} :
        IF ~h.ok
        THEN /\ pc' = "failed"
             /\ error' = h.error
             /\ UNCHANGED <<headers, initial_url, m3u8_files>>
        ELSE IF ~u.ok
        THEN /\ pc' = "failed"
             /\ error' = u.error
             /\ headers' = h.value
             /\ UNCHANGED <<initial_url, m3u8_files>>
        ELSE /\ pc' = "manifests"
             /\ headers' = h.value
             /\ initial_url' = u.value
             /\ m3u8_files' = <<u.value>>
             /\ UNCHANGED error
  /\ UNCHANGED << inputs, ts_files, ts_done, content, referenced_m3u8_files,
                  referenced_ts_files, gets, faults, files >>
  /\ UNCHANGED uvars

\* Lines 147-167, no exception: fetch, save, find the references, extend.
ManifestOk ==
  /\ pc = "manifests"
  /\ m3u8_files # <<>>
  /\ Resource(Head(m3u8_files)) \in DOMAIN site
  /\ \E m3u8_url \in {Head(m3u8_files)} :
     \E body \in {site[Resource(m3u8_url)]} :
     \E found_m3u8 \in {find_references(body, m3u8_url, M3U8)},
        found_ts \in {find_references(body, m3u8_url, TS)} :
     \E m \in {Tail(m3u8_files) \o found_m3u8}, t \in {ts_files \o found_ts} :
        /\ content' = body
        /\ gets' = Record(gets, "m3u8", m3u8_url, headers, "ok", TRUE)
        /\ files' = files \cup {get_filename_from_url(m3u8_url)}
        /\ referenced_m3u8_files' = found_m3u8
        /\ referenced_ts_files' = found_ts
        /\ IF Len(m) > MaxQueue \/ Len(t) > MaxSeg
           THEN pc' = "overflow" /\ UNCHANGED <<m3u8_files, ts_files>>
           ELSE pc' = pc /\ m3u8_files' = m /\ ts_files' = t
  /\ UNCHANGED <<inputs, error, headers, initial_url, ts_done, faults>>
  /\ UNCHANGED uvars

\* The first loop without its handler: the exception of a failed fetch ends
\* the run.
ManifestFetchFailsUncaught ==
  /\ pc = "manifests"
  /\ m3u8_files # <<>>
  /\ faults < MaxFaults
  /\ \E outcome \in {"status", "raised"} :
       gets' = Record(gets, "m3u8", Head(m3u8_files), headers, outcome, FALSE)
  /\ pc' = "failed"
  /\ error' = "Exception"
  /\ faults' = faults + 1
  /\ UNCHANGED << inputs, headers, initial_url, m3u8_files, ts_files, ts_done, content,
                  referenced_m3u8_files, referenced_ts_files, files >>
  /\ UNCHANGED uvars

\* Lines 150 and 169-170: requests.get raises, or fetch_file raises on a
\* status other than 200; the handler reports it and the loop goes on.
ManifestFetchFails ==
  /\ pc = "manifests"
  /\ m3u8_files # <<>>
  /\ faults < MaxFaults
  /\ \E outcome \in {"status", "raised"} :
       gets' = Record(gets, "m3u8", Head(m3u8_files), headers, outcome, FALSE)
  /\ m3u8_files' = Tail(m3u8_files)
  /\ faults' = faults + 1
  /\ UNCHANGED << inputs, pc, error, headers, initial_url, ts_files, ts_done, content,
                  referenced_m3u8_files, referenced_ts_files, files >>
  /\ UNCHANGED uvars

\* Lines 88-91 and 169-170: the server does not hold the resource and answers
\* with a status other than 200.
ManifestNotFound ==
  /\ pc = "manifests"
  /\ m3u8_files # <<>>
  /\ Resource(Head(m3u8_files)) \notin DOMAIN site
  /\ gets' = Record(gets, "m3u8", Head(m3u8_files), headers, "status", FALSE)
  /\ m3u8_files' = Tail(m3u8_files)
  /\ UNCHANGED << inputs, pc, error, headers, initial_url, ts_files, ts_done, content,
                  referenced_m3u8_files, referenced_ts_files, faults, files >>
  /\ UNCHANGED uvars

\* Lines 150-158 and 169-170: the body arrives and saving it raises (makedirs,
\* open or write); the file may or may not have been created.
ManifestSaveFails ==
  /\ pc = "manifests"
  /\ m3u8_files # <<>>
  /\ faults < MaxFaults
  /\ LET m3u8_url == Head(m3u8_files)
     IN /\ Resource(m3u8_url) \in DOMAIN site
        /\ content' = site[Resource(m3u8_url)]
        /\ \E created \in BOOLEAN :
             /\ gets' = Record(gets, "m3u8", m3u8_url, headers, "save_raised", created)
             /\ files' = IF created THEN files \cup {get_filename_from_url(m3u8_url)}
                         ELSE files
  /\ m3u8_files' = Tail(m3u8_files)
  /\ faults' = faults + 1
  /\ UNCHANGED << inputs, pc, error, headers, initial_url, ts_files, ts_done,
                  referenced_m3u8_files, referenced_ts_files >>
  /\ UNCHANGED uvars

\* Line 147 to 173: the first loop has iterated every entry.
ManifestsDrained ==
  /\ pc = "manifests"
  /\ m3u8_files = <<>>
  /\ pc' = "segments"
  /\ UNCHANGED << inputs, error, headers, initial_url, m3u8_files, ts_files, ts_done,
                  content, referenced_m3u8_files, referenced_ts_files, gets, faults,
                  files >>
  /\ UNCHANGED uvars

\* A download that does not wait for the first loop to end.
SegmentOkEarly ==
  /\ pc \in {"manifests", "segments"}
  /\ ts_done < Len(ts_files)
  /\ LET ts_url == ts_files[ts_done + 1]
     IN /\ gets' = Record(gets, "ts", ts_url, headers, "ok", TRUE)
        /\ files' = files \cup {get_filename_from_url(ts_url)}
  /\ ts_done' = ts_done + 1
  /\ UNCHANGED << inputs, pc, error, headers, initial_url, m3u8_files, ts_files, content,
                  referenced_m3u8_files, referenced_ts_files, faults >>
  /\ UNCHANGED uvars

\* A download that sends the headers to the host of the request only.
SegmentOkSameHostHeaders ==
  /\ pc = "segments"
  /\ ts_done < Len(ts_files)
  /\ LET ts_url == ts_files[ts_done + 1]
         sent == IF Origin(ts_url) = Origin(initial_url) THEN headers ELSE <<>>
     IN /\ gets' = Record(gets, "ts", ts_url, sent, "ok", TRUE)
        /\ files' = files \cup {get_filename_from_url(ts_url)}
  /\ ts_done' = ts_done + 1
  /\ UNCHANGED << inputs, pc, error, headers, initial_url, m3u8_files, ts_files, content,
                  referenced_m3u8_files, referenced_ts_files, faults >>
  /\ UNCHANGED uvars

\* Lines 173-178 and 105-111: status 200, the body is streamed to the file.
SegmentOk ==
  /\ pc = "segments"
  /\ ts_done < Len(ts_files)
  /\ LET ts_url == ts_files[ts_done + 1]
     IN /\ gets' = Record(gets, "ts", ts_url, headers, "ok", TRUE)
        /\ files' = files \cup {get_filename_from_url(ts_url)}
  /\ ts_done' = ts_done + 1
  /\ UNCHANGED << inputs, pc, error, headers, initial_url, m3u8_files, ts_files, content,
                  referenced_m3u8_files, referenced_ts_files, faults >>
  /\ UNCHANGED uvars

\* The second loop giving up at the first segment that fails.
SegmentFailsAndStops ==
  /\ pc = "segments"
  /\ ts_done < Len(ts_files)
  /\ faults < MaxFaults
  /\ \E outcome \in {"status", "raised"} :
       gets' = Record(gets, "ts", ts_files[ts_done + 1], headers, outcome, FALSE)
  /\ ts_done' = ts_done + 1
  /\ pc' = "done"
  /\ faults' = faults + 1
  /\ UNCHANGED << inputs, error, headers, initial_url, m3u8_files, ts_files, content,
                  referenced_m3u8_files, referenced_ts_files, files >>
  /\ UNCHANGED uvars

\* Lines 105, 112-113 and 179-180: a status other than 200 is printed; an
\* exception of requests.get, makedirs or open is caught. No file either way.
SegmentFails ==
  /\ pc = "segments"
  /\ ts_done < Len(ts_files)
  /\ faults < MaxFaults
  /\ \E outcome \in {"status", "raised"} :
       gets' = Record(gets, "ts", ts_files[ts_done + 1], headers, outcome, FALSE)
  /\ ts_done' = ts_done + 1
  /\ faults' = faults + 1
  /\ UNCHANGED << inputs, pc, error, headers, initial_url, m3u8_files, ts_files, content,
                  referenced_m3u8_files, referenced_ts_files, files >>
  /\ UNCHANGED uvars

\* Lines 108-110 and 179-180: the file is open and the stream (iter_content)
\* or the write raises; the handler catches it and the partial file stays.
SegmentStreamFails ==
  /\ pc = "segments"
  /\ ts_done < Len(ts_files)
  /\ faults < MaxFaults
  /\ LET ts_url == ts_files[ts_done + 1]
     IN /\ gets' = Record(gets, "ts", ts_url, headers, "stream_raised", TRUE)
        /\ files' = files \cup {get_filename_from_url(ts_url)}
  /\ ts_done' = ts_done + 1
  /\ faults' = faults + 1
  /\ UNCHANGED << inputs, pc, error, headers, initial_url, m3u8_files, ts_files, content,
                  referenced_m3u8_files, referenced_ts_files >>
  /\ UNCHANGED uvars

\* Line 173 to the return: the second loop has iterated every entry.
SegmentsDrained ==
  /\ pc = "segments"
  /\ ts_done = Len(ts_files)
  /\ pc' = "done"
  /\ UNCHANGED << inputs, error, headers, initial_url, m3u8_files, ts_files, ts_done,
                  content, referenced_m3u8_files, referenced_ts_files, gets, faults,
                  files >>
  /\ UNCHANGED uvars

\* ------------------------------------------------- upload_directory_to_s3

Falsy(v) == v \in {NONE, ""}

\* os.path.join(root, file) for the file of a directory of the walk.
FilePath(source_directory, dir, file) == <<source_directory>> \o dir \o <<file>>

\* os.path.relpath(path, start) for a path under start.
relpath(path, start) ==
  IF Len(path) >= 1 /\ path[1] = start THEN Tail(path) ELSE path

\* The files of the walk, in the order the nested loops take them.
RECURSIVE WalkFiles(_, _)
WalkFiles(source_directory, t) ==
  IF t = <<>> THEN <<>>
  ELSE [k \in 1..Len(Head(t).files) |->
          FilePath(source_directory, Head(t).dir, Head(t).files[k])]
       \o WalkFiles(source_directory, Tail(t))

UploadIdle ==
  /\ args = [source_directory |-> NONE, bucket_name |-> NONE,
             aws_access_key_id |-> NONE, aws_secret_access_key |-> NONE]
  /\ env = [AWS_ACCESS_KEY_ID |-> NONE, AWS_SECRET_ACCESS_KEY |-> NONE]
  /\ tree = <<>>
  /\ up_pc = "idle"
  /\ aws_access_key_id = NONE
  /\ aws_secret_access_key = NONE
  /\ reported = ""
  /\ up_done = 0
  /\ uploads = <<>>

DownloadIdle ==
  /\ request = DefaultRequest
  /\ site = DefaultSite
  /\ curl_command = <<>>
  /\ pc = "idle"
  /\ error = ""
  /\ headers = <<>>
  /\ initial_url = <<>>
  /\ m3u8_files = <<>>
  /\ ts_files = <<>>
  /\ ts_done = 0
  /\ content = <<>>
  /\ referenced_m3u8_files = <<>>
  /\ referenced_ts_files = <<>>
  /\ gets = <<>>
  /\ faults = 0
  /\ files = {}

UploadInit ==
  /\ args \in [source_directory : SourceDirs, bucket_name : BucketNames,
               aws_access_key_id : KeyIds, aws_secret_access_key : SecretKeys]
  /\ env \in [AWS_ACCESS_KEY_ID : EnvKeyIds, AWS_SECRET_ACCESS_KEY : EnvSecretKeys]
  /\ tree \in Trees
  /\ up_pc = "start"
  /\ aws_access_key_id = args.aws_access_key_id
  /\ aws_secret_access_key = args.aws_secret_access_key
  /\ reported = ""
  /\ up_done = 0
  /\ uploads = <<>>

\* Lines 15-35: the environment fallback, then the four checks.
CheckParameters ==
  /\ up_pc = "start"
  /\ aws_access_key_id' =
       IF args.aws_access_key_id = NONE THEN env.AWS_ACCESS_KEY_ID
       ELSE args.aws_access_key_id
  /\ aws_secret_access_key' =
       IF args.aws_secret_access_key = NONE THEN env.AWS_SECRET_ACCESS_KEY
       ELSE args.aws_secret_access_key
  /\ reported' =
       IF Falsy(aws_access_key_id') THEN "Error: Missing AWS Access Key ID"
       ELSE IF Falsy(aws_secret_access_key') THEN "Error: Missing AWS Secret Access Key"
       ELSE IF Falsy(args.source_directory) THEN "Error: Missing source directory"
       ELSE IF Falsy(args.bucket_name) THEN "Error: Missing S3 bucket name"
       ELSE ""
  /\ up_pc' = IF reported' # "" THEN "returned" ELSE "client"
  /\ UNCHANGED <<args, env, tree, up_done, uploads>>
  /\ UNCHANGED dvars

\* Lines 38-43: boto3.client returns the client.
ClientCreated ==
  /\ up_pc = "client"
  /\ up_pc' = "walk"
  /\ UNCHANGED << args, env, tree, aws_access_key_id, aws_secret_access_key, reported, up_done,
                  uploads >>
  /\ UNCHANGED dvars

\* Lines 44-46: boto3.client raises NoCredentialsError; the function returns.
ClientFails ==
  /\ up_pc = "client"
  /\ up_pc' = "returned"
  /\ reported' = "Error: AWS credentials not provided or incorrect"
  /\ UNCHANGED << args, env, tree, aws_access_key_id, aws_secret_access_key, up_done,
                  uploads >>
  /\ UNCHANGED dvars

\* The walk without the handler: the exception of an upload ends it.
UploadFileUncaught ==
  /\ up_pc = "walk"
  /\ LET walk == WalkFiles(args.source_directory, tree)
     IN /\ up_done < Len(walk)
        /\ LET file_path == walk[up_done + 1]
               s3_key == relpath(file_path, args.source_directory)
           IN \E outcome \in {"ok", "raised"} :
                /\ uploads' = Append(uploads, [file_path |-> file_path,
                                               bucket |-> args.bucket_name,
                                               key |-> s3_key, outcome |-> outcome])
                /\ up_pc' = IF outcome = "raised" THEN "done" ELSE up_pc
  /\ up_done' = up_done + 1
  /\ UNCHANGED <<args, env, tree, aws_access_key_id, aws_secret_access_key, reported>>
  /\ UNCHANGED dvars

\* Lines 49-57: one file of the walk; upload_file returns or raises, and the
\* handler reports the exception.
UploadFile ==
  /\ up_pc = "walk"
  /\ LET walk == WalkFiles(args.source_directory, tree)
     IN /\ up_done < Len(walk)
        /\ LET file_path == walk[up_done + 1]
               s3_key == relpath(file_path, args.source_directory)
           IN \E outcome \in {"ok", "raised"} :
                uploads' = Append(uploads, [file_path |-> file_path,
                                            bucket |-> args.bucket_name,
                                            key |-> s3_key, outcome |-> outcome])
  /\ up_done' = up_done + 1
  /\ UNCHANGED <<args, env, tree, up_pc, aws_access_key_id, aws_secret_access_key, reported>>
  /\ UNCHANGED dvars

\* Line 49 to the return: the walk is over.
WalkDone ==
  /\ up_pc = "walk"
  /\ up_done = Len(WalkFiles(args.source_directory, tree))
  /\ up_pc' = "done"
  /\ UNCHANGED << args, env, tree, aws_access_key_id, aws_secret_access_key, reported, up_done,
                  uploads >>
  /\ UNCHANGED dvars

\* ---------------------------------------------------------- specifications

Init == DownloadInit /\ UploadIdle

Next ==
  \/ Extract
  \/ ManifestOk
  \/ ManifestFetchFails
  \/ ManifestNotFound
  \/ ManifestSaveFails
  \/ ManifestsDrained
  \/ SegmentOk
  \/ SegmentFails
  \/ SegmentStreamFails
  \/ SegmentsDrained

Spec == Init /\ [][Next]_vars

\* The interpreter runs the program on: every enabled step is taken.
FairSpec == Spec /\ WF_vars(Next)

UploadSpecInit == UploadInit /\ DownloadIdle

UploadNext ==
  \/ CheckParameters
  \/ ClientCreated
  \/ ClientFails
  \/ UploadFile
  \/ WalkDone

UploadSpec == UploadSpecInit /\ [][UploadNext]_vars
\* -------------------------------------------------------------- properties

LogComplete == Len(gets) < MaxLog
OfKind(kind) == SelectSeq(gets, LAMBDA e : e.kind = kind)
Urls(log) == [k \in 1..Len(log) |-> log[k].url]
Running == pc \in {"manifests", "segments", "done"}

\* What the manifests fetched without error refer to, in the order they were
\* fetched.
RECURSIVE Discovered(_, _)
Discovered(log, file_extension) ==
  IF log = <<>> THEN <<>>
  ELSE (IF Head(log).kind = "m3u8" /\ Head(log).outcome = "ok"
        THEN find_references(site[Resource(Head(log).url)], Head(log).url, file_extension)
        ELSE <<>>) \o Discovered(Tail(log), file_extension)

\* C1: a failed fetch of one pending manifest never stops the run: no GET is
\* followed by the end of the run before the second loop, every URL ever
\* appended to the pending manifests has been fetched in order or is still
\* pending, the second loop starts only with none pending, and the pending
\* segments are what the manifests fetched without error refer to.
C1_FailedFetchNeverStopsTheRun ==
  /\ gets # <<>> => pc \in {"manifests", "segments", "done", "overflow"}
  /\ Running /\ LogComplete =>
       /\ error = ""
       /\ Urls(OfKind("m3u8")) \o m3u8_files = <<request.url>> \o Discovered(gets, M3U8)
       /\ ts_files = Discovered(gets, TS)
       /\ pc \in {"segments", "done"} => m3u8_files = <<>>

\* C1: a run is over in which a manifest failed, a later one was fetched and a
\* segment was then downloaded.
C1_Witness ==
  /\ pc = "done"
  /\ LogComplete
  /\ \E i, j, k \in DOMAIN gets :
       /\ i < j /\ j < k
       /\ gets[i].kind = "m3u8" /\ gets[i].outcome # "ok"
       /\ gets[j].kind = "m3u8" /\ gets[j].outcome = "ok"
       /\ gets[k].kind = "ts"

NoUrlFound == ~UrlSearch(curl_command).found
WrongSuffix ==
  /\ UrlSearch(curl_command).found
  /\ ~EndsWith(BeforeFirst(UrlSearch(curl_command).group, <<QMARK>>), M3U8)
HeaderWithoutSeparator == \E k \in DOMAIN request.decls : request.decls[k].sep # COLON_SPACE

\* C2: a request description in which no URL is found, whose first URL does
\* not end in ".m3u8" before its query string, or with a header declaration
\* without ": ", fails before any GET and before any local file is written.
C2_InvalidRequestNeverReachesTheNetwork ==
  (NoUrlFound \/ WrongSuffix \/ HeaderWithoutSeparator) =>
    /\ pc \in {"start", "failed"}
    /\ pc = "failed" => error # ""
    /\ gets = <<>>
    /\ files = {}

\* C2: a run failed on a URL of the wrong suffix, its headers being well formed.
C2_Witness ==
  /\ pc = "failed"
  /\ WrongSuffix
  /\ ~HeaderWithoutSeparator
  /\ request.decls # <<>>

\* C3: for every set of manifest bodies, cyclic ones included, the run ends
\* (or leaves the bounds of the model).
C3_EveryRunTerminates == <>(pc \in {"done", "failed", "overflow"})

SegmentGetIssued == ts_done > 0 \/ \E k \in DOMAIN gets : gets[k].kind = "ts"

\* C4: no segment GET is issued while a manifest is pending, no manifest GET
\* follows a segment GET, and once a segment GET has been issued neither
\* queue grows.
C4_DiscoveryBeforeFetch ==
  /\ [](SegmentGetIssued => pc \in {"segments", "done"} /\ m3u8_files = <<>>)
  /\ [](\A i, j \in DOMAIN gets : i < j /\ gets[i].kind = "ts" => gets[j].kind = "ts")
  /\ [][SegmentGetIssued => m3u8_files' = m3u8_files /\ ts_files' = ts_files]_vars

\* C4: a run is over that fetched two manifests and downloaded two segments.
C4_Witness ==
  /\ pc = "done"
  /\ Len(OfKind("m3u8")) >= 2
  /\ Len(OfKind("ts")) >= 2

\* The last iteration of the first loop fetched, saved and scanned a body.
LastManifestOk ==
  /\ gets # <<>>
  /\ LogComplete
  /\ gets[Len(gets)].kind = "m3u8"
  /\ gets[Len(gets)].outcome = "ok"
LastUrl == gets[Len(gets)].url

\* A comment: the first character that is not whitespace is "#".
IsComment(line) ==
  LET i == SpanIn(line, 1, SPACES) IN i <= Len(line) /\ line[i] = HASH
WithoutComments(text) ==
  Join(SelectSeq(Lines(text), LAMBDA l : ~IsComment(l)), <<NL>>)

\* C5: the comment lines of a body contribute no reference: what
\* find_references returned is what it returns for the body without them.
C5_CommentsAreNeverReferences ==
  LastManifestOk =>
    /\ referenced_m3u8_files = find_references(WithoutComments(content), LastUrl, M3U8)
    /\ referenced_ts_files = find_references(WithoutComments(content), LastUrl, TS)

RefersToManifest(line) == EndsWith(BeforeFirst(line, <<QMARK>>), M3U8)
RefersToSegment(line) == EndsWith(BeforeFirst(line, <<QMARK>>), TS)
Resolved(ls, base) == [k \in 1..Len(ls) |-> urljoin(base, Strip(ls[k]))]

\* C6: for a body whose lines other than comments each refer to a nested
\* manifest or to a segment (the comments starting in the first column), the
\* step finds exactly the lines of each kind, in order, each resolved against
\* the URL of the manifest, and no line in both lists.
C6_ExactlyTheReferencesOfEachKind ==
  LET lines == Lines(content)
      refs == SelectSeq(lines, LAMBDA l : ~IsComment(l))
  IN (/\ LastManifestOk
      /\ \A k \in DOMAIN lines : IsComment(lines[k]) => lines[k][1] = HASH
      /\ \A k \in DOMAIN refs : RefersToManifest(refs[k]) \/ RefersToSegment(refs[k]))
     => /\ referenced_m3u8_files = Resolved(SelectSeq(refs, RefersToManifest), LastUrl)
        /\ referenced_ts_files = Resolved(SelectSeq(refs, RefersToSegment), LastUrl)

WellFormed ==
  /\ request.url # <<>>
  /\ EndsWith(BeforeFirst(request.url, <<QMARK>>), M3U8)
  /\ \A k \in DOMAIN request.decls : request.decls[k].sep = COLON_SPACE

\* C7: for a well-formed request description with N header declarations and
\* one URL ending in ".m3u8", extraction gives a mapping of N entries, one per
\* declaration, and the URL as written.
C7_ExtractionRoundTrip ==
  pc # "start" /\ WellFormed =>
    /\ error = ""
    /\ Cardinality(DOMAIN headers) = Len(request.decls)
    /\ \A k \in DOMAIN request.decls :
         /\ request.decls[k].name \in DOMAIN headers
         /\ headers[request.decls[k].name] = request.decls[k].value
    /\ initial_url = request.url

\* Every entry the second loop has taken got one GET, in the order of the queue,
\* and the loop ends only when it has taken them all.
OneGetPerSegmentInOrder ==
  /\ pc \notin {"segments", "done"} => ts_done = 0
  /\ pc = "done" => ts_done = Len(ts_files)
  /\ LogComplete => Urls(OfKind("ts")) = SubSeq(ts_files, 1, ts_done)

\* C8 as claimed: one GET per pending segment, in order, whatever the outcome
\* of the earlier ones, and a segment that fails writes no local file.
C8_FailedSegmentWritesNoFile ==
  /\ OneGetPerSegmentInOrder
  /\ \A k \in DOMAIN gets :
       gets[k].kind = "ts" /\ gets[k].outcome # "ok" => ~gets[k].wrote

\* C8 as amended: one GET per pending segment, in order, whatever the outcome
\* of the earlier ones; a status other than 200 and an exception raised before
\* the file is opened write no file, a successful download writes it, and an
\* exception raised while the body is streamed leaves the file it had opened.
C8_FailedSegmentNeverStopsTheLoop ==
  /\ OneGetPerSegmentInOrder
  /\ \A k \in DOMAIN gets :
       gets[k].kind = "ts" =>
         /\ gets[k].outcome \in {"status", "raised"} => ~gets[k].wrote
         /\ gets[k].outcome \in {"ok", "stream_raised"} =>
              gets[k].wrote /\ get_filename_from_url(gets[k].url) \in files

\* C8: a run is over in which a segment failed and a later one was downloaded.
C8_Witness ==
  /\ pc = "done"
  /\ LogComplete
  /\ \E i, j \in DOMAIN gets :
       /\ i < j
       /\ gets[i].kind = "ts" /\ gets[i].outcome \in {"status", "raised"}
       /\ gets[j].kind = "ts" /\ gets[j].outcome = "ok"

\* C9: the mapping extracted at the start is the mapping of the whole run, and
\* every GET carries it, whatever its host.
C9_EveryGetCarriesTheExtractedHeaders ==
  /\ pc \in {"manifests", "segments", "done", "overflow"} =>
       headers = extract_headers(curl_command).value
  /\ \A k \in DOMAIN gets : gets[k].headers = headers

\* C9: a run with a header is over that fetched two manifests and downloaded a
\* segment from another host.
C9_Witness ==
  /\ pc = "done"
  /\ DOMAIN headers # {}
  /\ Len(OfKind("m3u8")) >= 2
  /\ \E k \in DOMAIN gets :
       gets[k].kind = "ts" /\ Origin(gets[k].url) # Origin(initial_url)

\* The four required values, after the environment fallback.
Effective(given, fallback) == IF given = NONE THEN fallback ELSE given
AllPresent ==
  /\ ~Falsy(Effective(args.aws_access_key_id, env.AWS_ACCESS_KEY_ID))
  /\ ~Falsy(Effective(args.aws_secret_access_key, env.AWS_SECRET_ACCESS_KEY))
  /\ ~Falsy(args.source_directory)
  /\ ~Falsy(args.bucket_name)

\* The keys of the files under the source root: their paths relative to it.
RECURSIVE ExpectedKeys(_)
ExpectedKeys(t) ==
  IF t = <<>> THEN <<>>
  ELSE [k \in 1..Len(Head(t).files) |-> Head(t).dir \o <<Head(t).files[k]>>]
       \o ExpectedKeys(Tail(t))
Keys(calls) == [k \in 1..Len(calls) |-> calls[k].key]
Over == up_pc \in {"done", "returned"}

\* C10 as claimed: with the four values present the function makes one upload
\* call per file, keyed by the relative path, whatever the calls raise; with
\* one absent it makes none.
C10_OneUploadPerFile ==
  /\ ~AllPresent => uploads = <<>>
  /\ Over /\ AllPresent => Keys(uploads) = ExpectedKeys(tree)

\* C10 as amended: the same, provided the client was created; when creating
\* the client raises NoCredentialsError the function returns without a call.
C10_OneUploadPerFileOnceTheClientExists ==
  /\ ~AllPresent => uploads = <<>> /\ up_pc \in {"idle", "start", "returned"}
  /\ up_pc = "returned" => uploads = <<>>
  /\ up_pc = "returned" /\ AllPresent =>
       reported = "Error: AWS credentials not provided or incorrect"
  /\ up_pc \in {"walk", "done"} =>
       /\ AllPresent
       /\ Keys(uploads) = SubSeq(ExpectedKeys(tree), 1, up_done)
       /\ \A k \in DOMAIN uploads : uploads[k].bucket = args.bucket_name
  /\ up_pc = "done" => Keys(uploads) = ExpectedKeys(tree)

\* C10: a walk is over in which an upload raised and a later file, of the
\* subdirectory, was uploaded.
C10_Witness ==
  /\ up_pc = "done"
  /\ \E i, j \in DOMAIN uploads :
       /\ i < j
       /\ uploads[i].outcome = "raised"
       /\ uploads[j].outcome = "ok"
       /\ Len(uploads[j].key) = 2
====
